---- MODULE Spec2Model ----
(***************************************************************************)
(* Model of the Thinking Tool plugin (src/main.ts): the provider clients,  *)
(* the retrying invoker callAI, generateTopicSuggestions and               *)
(* generateArticle, the GenerateArticleModal wizard, the thinking session  *)
(* and the material note.                                                  *)
(*                                                                         *)
(* Specifications:                                                         *)
(*   SpecCallAI     one callAI invocation, attempt by attempt, with a log  *)
(*                  of progress notifications, provider calls, requests    *)
(*                  and waits;                                             *)
(*   SpecDeadline   the same with the time each request takes and the      *)
(*                  timer of withTimeout;                                  *)
(*   SpecLate       SpecDeadline with the requests that lost the race      *)
(*                  against their timer and settle afterwards;             *)
(*   SpecGenerate   one call of generateTopicSuggestions or of             *)
(*                  generateArticle over its callAI invocation;            *)
(*   SpecParse      the parsing half of generateTopicSuggestions applied   *)
(*                  to provider texts given as token sequences;            *)
(*   Spec           the wizard, its user events and the completions of the *)
(*                  callAI invocations it has started. A returned text is  *)
(*                  turned into any value the signature                    *)
(*                  Promise<TopicSuggestion[]> of generateTopicSuggestions *)
(*                  admits, or into its parse error (SynthesizerResults);  *)
(*   SpecOutline    the outline editor of step 2, entered with outlines of *)
(*                  every length;                                          *)
(*   SpecReselect   the same with the ways back to the topic list and      *)
(*                  into the editor again;                                 *)
(*   SpecKey        the wizard while the API key is emptied in the         *)
(*                  settings tab;                                          *)
(*   SpecSession    startThinkingSession and endThinkingSession with the   *)
(*                  vault and the material-note folder;                    *)
(*   SpecMaterials  appendMaterial on the material note, and the wizard    *)
(*                  reading that note.                                     *)
(***************************************************************************)
EXTENDS Integers, Sequences, FiniteSets, TLC

\* ===== Program constants (src/main.ts 73-75) =====
API_TIMEOUT == 60000
MAX_RETRIES == 3
RETRY_DELAY == 1000

\* 2^n, as Math.pow(2, n) for n >= 0
RECURSIVE Pow2(_)
Pow2(n) == IF n <= 0 THEN 1 ELSE 2 * Pow2(n - 1)

\* ===== Settings =====
Providers == {"gemini", "openai", "anthropic"}

\* settings: the selected provider and whether its API key is non-empty
SettingsSet == [aiProvider : Providers, hasKey : BOOLEAN]

\* ===== What one provider attempt can meet =====
\* The deadline of withTimeout fires first, or a response arrives: an HTTP
\* status and, for the body, whether the text field is present, missing, or
\* missing with finishReason SAFETY.
HttpStatuses == {200, 400, 401, 429, 500}
Texts == {"t1", "t2"}
TimeoutOutcome == [type |-> "timeout"]
ResponseOutcome(status, body, text) ==
  [type |-> "response", status |-> status, body |-> body, text |-> text]
ProviderOutcomes ==
  {TimeoutOutcome}
    \cup {ResponseOutcome(s, "missing", "") : s \in HttpStatuses}
    \cup {ResponseOutcome(200, "safety", "")}
    \cup {ResponseOutcome(200, "text", t) : t \in Texts}

\* ===== Errors (the Error objects the code throws, by message) =====
Err(kind, provider, status) == [kind |-> kind, provider |-> provider, status |-> status]
NoError == [kind |-> "none"]

\* new Error(`요청 시간 초과 (${timeoutMs / 1000}초)`)
TimeoutError(timeoutMs) == Err("timeout", "", timeoutMs \div 1000)

Returned(text) == [ok |-> TRUE, text |-> text, error |-> NoError]
Thrown(error) == [ok |-> FALSE, text |-> "", error |-> error]

\* withTimeout: the race of the request against the timer
withTimeout(outcome, timeoutMs) ==
  IF outcome.type = "timeout" THEN Thrown(TimeoutError(timeoutMs))
  ELSE Returned(outcome)

\* ===== Provider clients =====
callOpenAIWithTimeout(settings, outcome) ==
  IF ~settings.hasKey THEN Thrown(Err("nokey", "openai", 0))
  ELSE LET raced == withTimeout(outcome, API_TIMEOUT) IN
       IF ~raced.ok THEN raced
       ELSE LET response == raced.text IN
            IF response.status = 401 THEN Thrown(Err("keyinvalid", "openai", 0))
            ELSE IF response.status = 429 THEN Thrown(Err("ratelimit", "openai", 0))
            ELSE IF response.status # 200
              THEN Thrown(Err("apierror", "openai", response.status))
            ELSE IF response.body # "text" THEN Thrown(Err("malformed", "openai", 0))
            ELSE Returned(response.text)

callAnthropicWithTimeout(settings, outcome) ==
  IF ~settings.hasKey THEN Thrown(Err("nokey", "anthropic", 0))
  ELSE LET raced == withTimeout(outcome, API_TIMEOUT) IN
       IF ~raced.ok THEN raced
       ELSE LET response == raced.text IN
            IF response.status = 401 THEN Thrown(Err("keyinvalid", "anthropic", 0))
            ELSE IF response.status = 429 THEN Thrown(Err("ratelimit", "anthropic", 0))
            ELSE IF response.status # 200
              THEN Thrown(Err("apierror", "anthropic", response.status))
            ELSE IF response.body # "text" THEN Thrown(Err("malformed", "anthropic", 0))
            ELSE Returned(response.text)

callGeminiWithTimeout(settings, outcome) ==
  IF ~settings.hasKey THEN Thrown(Err("nokey", "gemini", 0))
  ELSE LET raced == withTimeout(outcome, API_TIMEOUT) IN
       IF ~raced.ok THEN raced
       ELSE LET response == raced.text IN
            IF response.status = 400 THEN Thrown(Err("keyinvalid", "gemini", 0))
            ELSE IF response.status = 429 THEN Thrown(Err("ratelimit", "gemini", 0))
            ELSE IF response.status # 200
              THEN Thrown(Err("apierror", "gemini", response.status))
            ELSE IF response.body # "text"
              THEN IF response.body = "safety" THEN Thrown(Err("blocked", "gemini", 0))
                   ELSE Thrown(Err("malformed", "gemini", 0))
            ELSE Returned(response.text)

\* the provider dispatch inside callAI's loop body
CallProvider(settings, outcome) ==
  IF settings.aiProvider = "gemini" THEN callGeminiWithTimeout(settings, outcome)
  ELSE IF settings.aiProvider = "openai" THEN callOpenAIWithTimeout(settings, outcome)
  ELSE callAnthropicWithTimeout(settings, outcome)

\* ===== callAI =====
\* One invocation of callAI is a record:
\*   attempt    the loop variable
\*   phase      "request": awaiting the provider client of this attempt;
\*              "sleep":   awaiting this.sleep(delay) after a failed attempt;
\*              "returned" / "thrown": the invocation is over
\*   lastError  the local lastError
\*   result     the text returned, or the error thrown
\*   errors     the errors caught so far, in order
\*   events     what the invocation has done, in order: progress notifications,
\*              provider-client calls, requests put on the network, waits
Event(ev, n) == [ev |-> ev, n |-> n]

\* `AI 호출 실패 (${MAX_RETRIES}회 시도): ${lastError?.message}`
ExhaustedError(lastError) ==
  [kind |-> "exhausted", provider |-> "", status |-> MAX_RETRIES, last |-> lastError]

\* (a variant that notifies progress twice per attempt)
BeginAttempt_TwoNotices(c, settings, attempt) ==
  [c EXCEPT !.attempt = attempt,
            !.phase = "request",
            !.events = c.events
               \o <<Event("progress", attempt), Event("progress", attempt),
                    Event("call", attempt)>>
               \o (IF settings.hasKey THEN <<Event("request", attempt)>> ELSE <<>>)]

\* (a variant whose provider client sends its request before it looks at the key)
BeginAttempt_SendsFirst(c, settings, attempt) ==
  [c EXCEPT !.attempt = attempt,
            !.phase = "request",
            !.events = c.events
               \o <<Event("progress", attempt), Event("call", attempt),
                    Event("request", attempt)>>]

\* the head of one loop iteration: the progress notification and the call of
\* the provider client, which sends its request unless the key is missing
BeginAttempt(c, settings, attempt) ==
  [c EXCEPT !.attempt = attempt,
            !.phase = "request",
            !.events = c.events
               \o <<Event("progress", attempt), Event("call", attempt)>>
               \o (IF settings.hasKey THEN <<Event("request", attempt)>> ELSE <<>>)]

CallAIStart(settings) ==
  BeginAttempt([attempt |-> 0, phase |-> "request", lastError |-> NoError,
                result |-> Returned(""), errors |-> <<>>, events |-> <<>>],
               settings, 1)

\* (a variant that does not wait before the next attempt)
AttemptFailed_NoWait(c, error) ==
  LET caught == [c EXCEPT !.lastError = error, !.errors = Append(c.errors, error)] IN
  IF c.attempt < MAX_RETRIES
    THEN [caught EXCEPT !.phase = "sleep"]
    ELSE [caught EXCEPT !.phase = "thrown",
                        !.result = Thrown(ExhaustedError(caught.lastError))]

\* (a variant whose backoff does not grow)
AttemptFailed_FlatDelay(c, error) ==
  LET caught == [c EXCEPT !.lastError = error, !.errors = Append(c.errors, error)] IN
  IF c.attempt < MAX_RETRIES
    THEN LET delay == RETRY_DELAY IN
         [caught EXCEPT !.phase = "sleep",
                        !.events = c.events
                           \o <<Event("progressWait", delay \div 1000), Event("wait", delay)>>]
    ELSE [caught EXCEPT !.phase = "thrown",
                        !.result = Thrown(ExhaustedError(caught.lastError))]

\* (a variant that keeps the first error instead of the last)
AttemptFailed_KeepsFirst(c, error) ==
  LET caught == [c EXCEPT !.lastError = IF c.errors = <<>> THEN error ELSE c.lastError,
                          !.errors = Append(c.errors, error)] IN
  IF c.attempt < MAX_RETRIES
    THEN LET delay == RETRY_DELAY * Pow2(c.attempt - 1) IN
         [caught EXCEPT !.phase = "sleep",
                        !.events = c.events
                           \o <<Event("progressWait", delay \div 1000), Event("wait", delay)>>]
    ELSE [caught EXCEPT !.phase = "thrown",
                        !.result = Thrown(ExhaustedError(caught.lastError))]

\* (a variant that waits without notifying the sink)
AttemptFailed_WaitsUnannounced(c, error) ==
  LET caught == [c EXCEPT !.lastError = error, !.errors = Append(c.errors, error)] IN
  IF c.attempt < MAX_RETRIES
    THEN LET delay == RETRY_DELAY * Pow2(c.attempt - 1) IN
         [caught EXCEPT !.phase = "sleep",
                        !.events = c.events \o <<Event("wait", delay)>>]
    ELSE [caught EXCEPT !.phase = "thrown",
                        !.result = Thrown(ExhaustedError(caught.lastError))]

\* the catch block of callAI, and the throw after the loop
AttemptFailed(c, error) ==
  LET caught == [c EXCEPT !.lastError = error, !.errors = Append(c.errors, error)] IN
  IF c.attempt < MAX_RETRIES
    THEN LET delay == RETRY_DELAY * Pow2(c.attempt - 1) IN
         [caught EXCEPT !.phase = "sleep",
                        !.events = c.events
                           \o <<Event("progressWait", delay \div 1000), Event("wait", delay)>>]
    ELSE [caught EXCEPT !.phase = "thrown",
                        !.result = Thrown(ExhaustedError(caught.lastError))]

\* the provider client of the current attempt settles with `outcome`
AttemptSettles(c, settings, outcome) ==
  LET r == CallProvider(settings, outcome) IN
  IF r.ok THEN [c EXCEPT !.phase = "returned", !.result = r]
  ELSE AttemptFailed(c, r.error)

\* this.sleep(delay) resolves: the next loop iteration begins
SleepResolves(c, settings) == BeginAttempt(c, settings, c.attempt + 1)

CallOver(c) == c.phase \in {"returned", "thrown"}
\* an attempt without a key fails before anything is awaited on the network
AwaitsNetwork(c, settings) == c.phase = "request" /\ settings.hasKey
FailsAtOnce(c, settings) == c.phase = "request" /\ ~settings.hasKey

\* ===== Topic parsing (generateTopicSuggestions, after callAI returned) =====
\* A provider text is a sequence of tokens: brackets, commas, JSON string
\* literals, prose, and the pieces of a topic object:
\*   "{A:"  {"title":"A","description":"..","outline":   (the value follows)
\*   "}"    the brace closing such an object
\*   "{A}"  {"title":"A","description":".."}             (no outline field)
LB == "["
RB == "]"
COMMA == ","
CLOSE == "}"
PROSE == "x"
StrTokens == {"'p'", "'q'"}
OpenTokens == {"{A:", "{B:"}
FlatTokens == {"{A}", "{B}"}
Tokens == {LB, RB, COMMA, CLOSE, PROSE} \cup StrTokens \cup OpenTokens \cup FlatTokens

TitleOf(tok) == IF tok \in {"{A:", "{A}"} THEN "A" ELSE "B"

\* JSON values
Undefined == [t |-> "undefined"]
Str(tok) == [t |-> "str", v |-> tok]
Arr(items) == [t |-> "arr", items |-> items]
Obj(title, outline) == [t |-> "obj", title |-> title, outline |-> outline]

\* response.match(/\[[\s\S]*?\]/): from the first "[" to the first "]" after it
\* (the quantifier is lazy); <<>> stands for null (no match)
FirstAt(toks, tok, from) ==
  LET hits == {i \in DOMAIN toks : i >= from /\ toks[i] = tok} IN
  IF hits = {} THEN 0 ELSE CHOOSE i \in hits : \A j \in hits : i <= j

jsonMatch(response) ==
  LET start == FirstAt(response, LB, 1) IN
  IF start = 0 THEN <<>>
  ELSE LET stop == FirstAt(response, RB, start + 1) IN
       IF stop = 0 THEN <<>> ELSE SubSeq(response, start, stop)

\* JSON.parse on a token sequence: [ok, val, next]
NoParse == [ok |-> FALSE, val |-> Undefined, next |-> 0]
Parsed(val, next) == [ok |-> TRUE, val |-> val, next |-> next]

RECURSIVE ParseValue(_, _)
RECURSIVE ParseElements(_, _, _)

ParseValue(toks, i) ==
  IF i > Len(toks) THEN NoParse
  ELSE IF toks[i] \in StrTokens THEN Parsed(Str(toks[i]), i + 1)
  ELSE IF toks[i] \in FlatTokens THEN Parsed(Obj(TitleOf(toks[i]), Undefined), i + 1)
  ELSE IF toks[i] \in OpenTokens
    THEN LET v == ParseValue(toks, i + 1) IN
         IF v.ok /\ v.next <= Len(toks) /\ toks[v.next] = CLOSE
           THEN Parsed(Obj(TitleOf(toks[i]), v.val), v.next + 1)
           ELSE NoParse
  ELSE IF toks[i] = LB
    THEN IF i + 1 <= Len(toks) /\ toks[i + 1] = RB THEN Parsed(Arr(<<>>), i + 2)
         ELSE ParseElements(toks, i + 1, <<>>)
  ELSE NoParse

ParseElements(toks, i, acc) ==
  LET v == ParseValue(toks, i) IN
  IF ~v.ok \/ v.next > Len(toks) THEN NoParse
  ELSE IF toks[v.next] = RB THEN Parsed(Arr(Append(acc, v.val)), v.next + 1)
  ELSE IF toks[v.next] = COMMA THEN ParseElements(toks, v.next + 1, Append(acc, v.val))
  ELSE NoParse

\* JSON.parse(text): the whole text must be one value (a SyntaxError otherwise)
JSONparse(toks) ==
  LET v == ParseValue(toks, 1) IN
  IF v.ok /\ v.next = Len(toks) + 1 THEN v ELSE NoParse

\* new Error("주제 제안 파싱 실패: AI 응답 형식이 올바르지 않습니다.")
TopicParseError == Err("topicparse", "", 0)

\* topics.slice(0, 5)
Slice5(items) == SubSeq(items, 1, IF Len(items) < 5 THEN Len(items) ELSE 5)

SliceFirstSix(items) == SubSeq(items, 1, IF Len(items) < 6 THEN Len(items) ELSE 6)

\* the try block of generateTopicSuggestions, on the text callAI returned:
\* [ok, topics, error]
TopicsReturned(topics) == [ok |-> TRUE, topics |-> topics, error |-> NoError]
TopicsThrown(error) == [ok |-> FALSE, topics |-> <<>>, error |-> error]

ParseTopics_KeepsSix(response) ==
  LET m == jsonMatch(response) IN
  IF m = <<>> THEN TopicsThrown(TopicParseError)
  ELSE LET p == JSONparse(m) IN
       IF p.ok /\ p.val.t = "arr" /\ Len(p.val.items) > 0
         THEN TopicsReturned(SliceFirstSix(p.val.items))
         ELSE TopicsThrown(TopicParseError)

ParseTopics(response) ==
  LET m == jsonMatch(response) IN
  IF m = <<>> THEN TopicsThrown(TopicParseError)
  ELSE LET p == JSONparse(m) IN
       IF p.ok /\ p.val.t = "arr" /\ Len(p.val.items) > 0
         THEN TopicsReturned(Slice5(p.val.items))
         ELSE TopicsThrown(TopicParseError)

\* ----- callAI: what the log of an invocation says -----
IsCall(e) == e.ev = "call"
IsWait(e) == e.ev = "wait"
IsProgress(e) == e.ev \in {"progress", "progressWait"}
IsRequest(e) == e.ev = "request"
NumCalls(c) == Len(SelectSeq(c.events, IsCall))
NumProgress(c) == Len(SelectSeq(c.events, IsProgress))
Waits(c) == LET w == SelectSeq(c.events, IsWait) IN [i \in DOMAIN w |-> w[i].n]

\* the failures the retry policy is stated for
RetryableKinds == {"ratelimit", "apierror", "malformed", "timeout"}
AllRetryable(errors) == \A i \in DOMAIN errors : errors[i].kind \in RetryableKinds

\* all sequences over S of length 0..n
RECURSIVE SeqsUpTo(_, _)
SeqsUpTo(S, n) ==
  IF n = 0 THEN {<<>>}
  ELSE LET shorter == SeqsUpTo(S, n - 1) IN
       shorter \cup {Append(q, x) : q \in shorter, x \in S}

NotStarted == [attempt |-> 0, phase |-> "idle", lastError |-> NoError,
               result |-> Returned(""), errors |-> <<>>, events |-> <<>>]

\* ===== GenerateArticleModal =====
\* Bounds of the wizard model
MaxInFlight == 2
MaxAutoRequests == 4
MaxTopics == 2
MaxSuggestedOutline == 0
MaxOutline == 4
MaxEdits == 1

\* --- materials note ---
\* what getMaterialsContent can return: null (no path, no file), the empty
\* string, or a text holding some number of "> [!quote]" blocks
MaxQuotes == 1
MaterialsContents ==
  {[kind |-> "null", quotes |-> 0], [kind |-> "empty", quotes |-> 0]}
    \cup {[kind |-> "text", quotes |-> n] : n \in 0..MaxQuotes}

\* !content is false
Truthy(content) == content.kind = "text"

countMaterials(content) == IF ~Truthy(content) THEN 0 ELSE content.quotes

\* --- topics ---
\* A TopicSuggestion object. hasOutline is FALSE when the parsed JSON object
\* carries no outline array (the cast `as TopicSuggestion[]` checks nothing).
TopicSuggestion(title, description, hasOutline, outline) ==
  [title |-> title, description |-> description,
   hasOutline |-> hasOutline, outline |-> outline]

\* this.selectedTopic: null, or a reference to an object. index is the
\* position of that object in this.topics, 0 when this.topics does not hold it.
NullSelection ==
  [isNull |-> TRUE, index |-> 0, topic |-> TopicSuggestion("", "", FALSE, <<>>)]
Selection(index, topic) == [isNull |-> FALSE, index |-> index, topic |-> topic]

OutlineEntries == {"p"}
PositionTitles == <<"A", "B", "C">>
SuggestedOutlines == SeqsUpTo(OutlineEntries, MaxSuggestedOutline)
SuggestedTopicsAt(i) ==
  {TopicSuggestion(PositionTitles[i], "d", TRUE, o) : o \in SuggestedOutlines}
    \cup {TopicSuggestion(PositionTitles[i], "d", FALSE, <<>>)}

\* What generateTopicSuggestions can hand to loadTopics once callAI has
\* returned, by its signature Promise<TopicSuggestion[]>: an array of 1..5
\* objects (here up to MaxTopics), or the topic-parse error.
SuggestedLists ==
  UNION {{l \in [1..n -> UNION {SuggestedTopicsAt(i) : i \in 1..n}] :
            \A i \in 1..n : l[i] \in SuggestedTopicsAt(i)} : n \in 1..MaxTopics}
SynthesizerResults ==
  {TopicsReturned(l) : l \in SuggestedLists} \cup {TopicsThrown(TopicParseError)}

\* the custom topic of the "이 주제로 진행" button
DefaultOutline == <<"intro", "body 1", "body 2", "conclusion">>
CustomTopic(title) == TopicSuggestion(title, "custom", TRUE, DefaultOutline)

\* customInput.value.trim()
Trim(value) == IF value = " " THEN "" ELSE IF value = " T " THEN "T" ELSE value
CustomInputs == {"", " ", "T", " T "}

Personas == {"essay", "blog", "academic", "twitter", "newsletter", "storytelling", "custom"}
PersonaOptions == {"essay", "blog", "newsletter", "storytelling", "academic", "twitter"}
\* the picks and inputs the user is taken to make
PersonaPicks == {"blog"}
LengthPicks == {"short"}
ArticleLengths == {"short", "medium", "long"}
InstructionInputs == {"c"}
EntryInputs == {"e"}

\* --- loading status texts ---
StatusNone == Event("status", 0)
StatusAnalyzing == Event("status", 1)
StatusPreparing == Event("status", 2)
StatusWriting == Event("status", 3)

\* the last progress notification among the events a step added
LastProgress(before, after, default) ==
  LET added == SubSeq(after, Len(before) + 1, Len(after))
      notices == SelectSeq(added, IsProgress) IN
  IF notices = <<>> THEN default ELSE notices[Len(notices)]

\* the status text shown, by its template (the numbers in it left out)
StatusOf(e) == IF e.ev = "status" THEN e ELSE Event(e.ev, 0)

NumNewRequests(before, after) ==
  Len(SelectSeq(SubSeq(after, Len(before) + 1, Len(after)), IsRequest))

\* --- errors of the wizard's own ---
\* new Error("노트 생성에 실패했습니다.")
NoteError == Err("notefailed", "", 0)
\* TypeError: topic.title read on null inside createArticleNote
NullTopicError == Err("typeerror", "", 0)

\* --- the world the handlers act on ---
\* The fields of the modal, the callAI invocations it has started and not yet
\* seen the end of (one slot each), and the counters:
\*   notes         notes created by createArticleNote
\*   autoRequests  requests put on the network while the user has not acted
\*   userActed     whether the user has clicked or typed anything
\*   edits         edits of outline and style made by the user
\*   overflow      a handler wanted more than the model's bounds allow
ModalFields ==
  {"opened", "step", "topics", "selectedTopic", "editedOutline", "selectedPersona",
   "selectedLength", "customInstructions", "isLoading", "loadingStatus", "lastError",
   "materialsContent", "materialCount"}

NoPrompt ==
  [materials |-> [kind |-> "null", quotes |-> 0], title |-> "", outline |-> <<>>,
   persona |-> "essay", length |-> "medium", custom |-> ""]

\* the field initialisers of the class
Constructed ==
  [opened |-> "constructed", step |-> 1, topics |-> <<>>, selectedTopic |-> NullSelection,
   editedOutline |-> <<>>, selectedPersona |-> "essay", selectedLength |-> "medium",
   customInstructions |-> "", isLoading |-> FALSE, loadingStatus |-> StatusNone,
   lastError |-> NoError, materialsContent |-> [kind |-> "null", quotes |-> 0],
   materialCount |-> 0]

\* the invocations under way, oldest first
InFlight(w) == DOMAIN w.calls

\* an attempt that cannot reach the network fails within the same task
SettleAtOnce(c, settings) ==
  IF FailsAtOnce(c, settings) THEN AttemptSettles(c, settings, TimeoutOutcome) ELSE c

\* the modal's call reaches `await this.callAI(...)`: the invocation joins
\* those under way, its first attempt is under way, the progress sink has run
StartCall(w, kind, status, prompt) ==
  LET c == SettleAtOnce(CallAIStart(w.settings), w.settings)
      sent == NumNewRequests(<<>>, c.events) IN
  IF Len(w.calls) >= MaxInFlight \/ (~w.userActed /\ w.autoRequests + sent > MaxAutoRequests)
    THEN [w EXCEPT !.overflow = TRUE]
    ELSE [w EXCEPT !.calls = Append(@, [kind |-> kind, c |-> c, prompt |-> prompt]),
                   !.loadingStatus = StatusOf(LastProgress(<<>>, c.events, status)),
                   !.autoRequests = IF w.userActed THEN @ ELSE @ + sent]

\* loadTopics, up to its await
loadTopics(w) ==
  IF ~Truthy(w.materialsContent) THEN w
  ELSE StartCall([w EXCEPT !.isLoading = TRUE, !.loadingStatus = StatusAnalyzing],
                 "topics", StatusAnalyzing,
                 [NoPrompt EXCEPT !.materials = w.materialsContent])

renderStep4Generate_DropsMaterials(w) ==
  IF w.selectedTopic.isNull \/ ~Truthy(w.materialsContent) THEN w
  ELSE StartCall([w EXCEPT !.isLoading = TRUE, !.loadingStatus = StatusPreparing],
                 "article", StatusWriting,
                 [materials |-> NoPrompt.materials,
                  title |-> w.selectedTopic.topic.title,
                  outline |-> w.selectedTopic.topic.outline,
                  persona |-> w.selectedPersona,
                  length |-> w.selectedLength,
                  custom |-> w.customInstructions])

\* renderStep4Generate, up to its await
renderStep4Generate(w) ==
  IF w.selectedTopic.isNull \/ ~Truthy(w.materialsContent) THEN w
  ELSE StartCall([w EXCEPT !.isLoading = TRUE, !.loadingStatus = StatusPreparing],
                 "article", StatusWriting,
                 [materials |-> w.materialsContent,
                  title |-> w.selectedTopic.topic.title,
                  outline |-> w.selectedTopic.topic.outline,
                  persona |-> w.selectedPersona,
                  length |-> w.selectedLength,
                  custom |-> w.customInstructions])

renderStep1Topics_NoEmptyState(w) ==
  IF w.topics = <<>> THEN loadTopics(w) ELSE w

\* renderStep1Topics, as far as it changes state
renderStep1Topics(w) ==
  IF w.materialCount < 1 THEN w
  ELSE IF w.topics = <<>> THEN loadTopics(w)
  ELSE w

\* render: the banner and the spinner change no state; steps 1 and 4 may
\* start a call
render(w) ==
  IF w.isLoading THEN w
  ELSE IF w.step = 1 THEN renderStep1Topics(w)
  ELSE IF w.step = 4 THEN renderStep4Generate(w)
  ELSE w

\* --- what the last render left on screen ---
IsOpen(w) == w.opened = "open"
BannerShown(w) == IsOpen(w) /\ w.lastError # NoError
StepShown(w, n) == IsOpen(w) /\ ~w.isLoading /\ w.step = n
EmptyStateShown(w) == StepShown(w, 1) /\ w.materialCount < 1
\* the topic loop of renderStep1Topics reads topic.outline.slice: it throws
\* at the first topic without an outline, before that topic's onclick is set
\* and before anything below the list is built
TopicOptionShown(w, i) ==
  /\ StepShown(w, 1) /\ w.materialCount >= 1
  /\ i \in DOMAIN w.topics
  /\ \A j \in 1..i : w.topics[j].hasOutline
Step1ButtonsShown(w) ==
  /\ StepShown(w, 1) /\ w.materialCount >= 1 /\ w.topics # <<>>
  /\ \A j \in DOMAIN w.topics : w.topics[j].hasOutline
Step2Shown(w) == StepShown(w, 2) /\ ~w.selectedTopic.isNull
Step3Shown(w) == StepShown(w, 3)

\* --- handlers ---
Acted(w) == [w EXCEPT !.userActed = TRUE, !.autoRequests = 0]
\* an edit of the outline or of the style, counted against MaxEdits
Edited(w) ==
  IF w.edits >= MaxEdits THEN [Acted(w) EXCEPT !.overflow = TRUE]
  ELSE [Acted(w) EXCEPT !.edits = @ + 1]

\* onOpen
onOpen(w, content) ==
  render([w EXCEPT !.opened = "open",
                   !.materialsContent = content,
                   !.materialCount = countMaterials(content)])

retryClick_AlwaysLoads(w) ==
  LET w1 == render([Acted(w) EXCEPT !.lastError = NoError]) IN
  loadTopics(w1)

\* retryBtn.onclick
retryClick(w) ==
  LET w1 == render([Acted(w) EXCEPT !.lastError = NoError]) IN
  IF w1.step = 1 /\ w1.topics = <<>> THEN loadTopics(w1) ELSE w1

\* option.onclick of topic i
topicClick(w, i) ==
  render([Acted(w) EXCEPT !.selectedTopic = Selection(i, w.topics[i]),
                          !.editedOutline = w.topics[i].outline])

customClick_NoTrim(w, value) ==
  LET title == value IN
  IF title # ""
    THEN render([Acted(w) EXCEPT !.selectedTopic = Selection(0, CustomTopic(title)),
                                 !.editedOutline = CustomTopic(title).outline,
                                 !.step = 2])
    ELSE Acted(w)

customClick_NoOutlineCopy(w, value) ==
  LET title == Trim(value) IN
  IF title # ""
    THEN render([Acted(w) EXCEPT !.selectedTopic = Selection(0, CustomTopic(title)),
                                 !.step = 2])
    ELSE Acted(w)

\* customBtn.onclick
customClick(w, value) ==
  LET title == Trim(value) IN
  IF title # ""
    THEN render([Acted(w) EXCEPT !.selectedTopic = Selection(0, CustomTopic(title)),
                                 !.editedOutline = CustomTopic(title).outline,
                                 !.step = 2])
    ELSE Acted(w)

\* refreshBtn.onclick
refreshClick(w) ==
  render([Acted(w) EXCEPT !.topics = <<>>, !.selectedTopic = NullSelection])

\* this.close(), from a button or from the modal's own close control
closeModal(w) == [w EXCEPT !.opened = "closed"]

\* nextBtn.onclick of step 1
next1Click(w) ==
  IF ~w.selectedTopic.isNull THEN render([Acted(w) EXCEPT !.step = 2]) ELSE Acted(w)

outlineInput_SharedArray(w, i, value) ==
  LET k == w.selectedTopic.index
      w1 == [Edited(w) EXCEPT !.editedOutline[i] = value,
                              !.selectedTopic.topic.outline[i] = value] IN
  IF k = 0 THEN w1 ELSE [w1 EXCEPT !.topics[k].outline[i] = value]

\* input.oninput of outline row i
outlineInput(w, i, value) == [Edited(w) EXCEPT !.editedOutline[i] = value]

RemoveAt(s, i) == SubSeq(s, 1, i - 1) \o SubSeq(s, i + 1, Len(s))

deleteClick_AtLeastTwo(w, i) ==
  IF Len(w.editedOutline) >= 2
    THEN render([Edited(w) EXCEPT !.editedOutline = RemoveAt(w.editedOutline, i)])
    ELSE Acted(w)

\* deleteBtn.onclick of outline row i
deleteClick(w, i) ==
  IF Len(w.editedOutline) > 2
    THEN render([Edited(w) EXCEPT !.editedOutline = RemoveAt(w.editedOutline, i)])
    ELSE Acted(w)

\* addBtn.onclick
addClick(w) == render([Edited(w) EXCEPT !.editedOutline = Append(@, "new")])

back2Click_DropsSelection(w) ==
  render([Acted(w) EXCEPT !.step = 1, !.selectedTopic = NullSelection])

\* backBtn.onclick of step 2
back2Click(w) == render([Acted(w) EXCEPT !.step = 1])

\* nextBtn.onclick of step 2: the assignment goes to the object
\* this.selectedTopic refers to, which this.topics may hold as well
next2Click(w) ==
  LET k == w.selectedTopic.index
      w1 == [Acted(w) EXCEPT !.selectedTopic.topic.outline = w.editedOutline,
                             !.selectedTopic.topic.hasOutline = TRUE,
                             !.step = 3] IN
  render(IF k = 0 THEN w1
         ELSE [w1 EXCEPT !.topics[k].outline = w.editedOutline,
                         !.topics[k].hasOutline = TRUE])

personaClick_Generates(w, persona) ==
  render([Edited(w) EXCEPT !.selectedPersona = persona, !.step = 4])

\* the option.onclick handlers and customArea.oninput of step 3
personaClick(w, persona) == render([Edited(w) EXCEPT !.selectedPersona = persona])
lengthClick(w, length) == render([Edited(w) EXCEPT !.selectedLength = length])
instructionsInput(w, value) == [Edited(w) EXCEPT !.customInstructions = value]

\* backBtn.onclick of step 3
back3Click(w) == render([Acted(w) EXCEPT !.step = 2])

\* generateBtn.onclick
generateClick(w) == render([Acted(w) EXCEPT !.step = 4])

\* --- a callAI invocation of the modal moves on ---
Release(w, slot) == [w EXCEPT !.calls = RemoveAt(@, slot)]

\* loadTopics after its await: generateTopicSuggestions returned or threw
loadTopicsSettles(w, slot, result) ==
  IF result.ok
    THEN render([Release(w, slot) EXCEPT !.topics = result.topics,
                                        !.selectedTopic.index = 0,
                                        !.isLoading = FALSE,
                                        !.lastError = NoError])
    ELSE render([Release(w, slot) EXCEPT !.isLoading = FALSE,
                                        !.lastError = result.error])

generateFailed_Restart(w, error) ==
  render([w EXCEPT !.isLoading = FALSE, !.lastError = error, !.step = 1])

\* the catch block of renderStep4Generate
generateFailed(w, error) ==
  render([w EXCEPT !.isLoading = FALSE, !.lastError = error, !.step = 3])

generateSettles_ClosesQuietly(w, slot, result, noteCreated) ==
  LET w1 == Release(w, slot) IN
  IF ~result.ok THEN generateFailed(w1, result.error)
  ELSE IF ~noteCreated THEN [w1 EXCEPT !.opened = "closed"]
  ELSE IF w1.selectedTopic.isNull THEN generateFailed(w1, NullTopicError)
  ELSE [w1 EXCEPT !.notes = @ + 1, !.opened = "closed"]

\* renderStep4Generate after its await: generateArticle returned or threw;
\* noteCreated says whether createArticleNote can make the file
generateSettles(w, slot, result, noteCreated) ==
  LET w1 == Release(w, slot) IN
  IF ~result.ok THEN generateFailed(w1, result.error)
  ELSE IF ~noteCreated THEN generateFailed(w1, NoteError)
  ELSE IF w1.selectedTopic.isNull THEN generateFailed(w1, NullTopicError)
  ELSE [w1 EXCEPT !.notes = @ + 1, !.opened = "closed"]

\* the invocation in `slot` is over with callAI result r: the function that
\* awaited it goes on; synth is what the topic parser makes of a returned text
CallerResumes(w, slot, r, synth, noteCreated) ==
  IF w.calls[slot].kind = "topics"
    THEN loadTopicsSettles(w, slot, IF r.ok THEN synth ELSE TopicsThrown(r.error))
    ELSE generateSettles(w, slot, r, noteCreated)

\* one step of the invocation in `slot`, seen from the modal: the progress
\* sink sets loadingStatus, requests are counted, a finished invocation
\* resumes its caller
CallMoves(w, slot, c, synth, noteCreated) ==
  LET old == w.calls[slot].c
      sent == NumNewRequests(old.events, c.events)
      w1 == [w EXCEPT !.calls[slot].c = c,
                      !.loadingStatus = StatusOf(LastProgress(old.events, c.events, @)),
                      !.autoRequests = IF w.userActed THEN @ ELSE @ + sent] IN
  IF ~w.userActed /\ w.autoRequests + sent > MaxAutoRequests
    THEN [w EXCEPT !.overflow = TRUE]
  ELSE IF CallOver(c) THEN CallerResumes(w1, slot, c.result, synth, noteCreated)
  ELSE w1


\* ===== Thinking session (startThinkingSession, endThinkingSession) =====
\* Bounds of the session model
MaxStartRequests == 3
MaxPendingStarts == 2

\* basenames of the notes a session is started from
Sources == {"A", "B"}

\* a path `${folder}${baseName}.md` or `${folder}${baseName} ${n}.md` (n >= 1):
\* dir is "F" for settings.materialNoteFolder (or the source's folder), "root"
\* for the vault root; base is the source's basename, " - Materials" left out
Path(dir, base, n) == [dir |-> dir, base |-> base, n |-> n]
NoPath == Path("", "", 0)

\* the folder the material note goes to: "root" (folderPath is ""), "present",
\* "absent", or "file" (the path exists but is a file)
FolderStates == {"root", "present", "absent", "file"}

\* this.session, the leaf ids as one flag
NoSession ==
  [isActive |-> FALSE, sourceFilePath |-> "", materialNotePath |-> NoPath, leaves |-> FALSE]
ActiveSession(source, path) ==
  [isActive |-> TRUE, sourceFilePath |-> source, materialNotePath |-> path, leaves |-> FALSE]

\* the name-collision loop of createMaterialNote
FreeName(files, dir, base) ==
  LET free == {n \in 0..Cardinality(files) : Path(dir, base, n) \notin files} IN
  Path(dir, base, CHOOSE n \in free : \A m \in free : n <= m)

\* what vault.create(path) does: it fails when the path is taken, when its
\* folder is missing, or when the write fails
CreateSucceeds(files, folderState, path, io) ==
  /\ io
  /\ path \notin files
  /\ path.dir = "F" => folderState = "present"

\* A running startThinkingSession is a record: source, the path chosen, and pc,
\* the await it is suspended at:
\*   "folder"    vault.createFolder inside createMaterialNote
\*   "create"    vault.create(fileName)
\*   "fallback"  vault.create(rootFileName) in the catch block
\*   "layout"    setupThreePanelLayout
Suspended(source, pc, path) == [source |-> source, pc |-> pc, path |-> path]

\* startThinkingSession(sourceFile) up to its first await; <<>> when it
\* returns at once because a session is active
startThinkingSession(sn, folderState, files, source) ==
  IF sn.isActive THEN <<>>
  ELSE IF folderState = "absent" THEN <<Suspended(source, "folder", NoPath)>>
  ELSE LET dir == IF folderState = "present" THEN "F" ELSE "root" IN
       <<Suspended(source, "create", FreeName(files, dir, source))>>

\* ===== generateTopicSuggestions and generateArticle, as callers of callAI =====
\* what the provider texts say: t1 is an array holding one topic object, t2
\* is prose without any array
TextTokens(text) == IF text = "t1" THEN <<PROSE, LB, "{A}", RB>> ELSE <<PROSE>>

\* A call of one of the two functions is a record:
\*   fn           the function
\*   phase        "awaiting": suspended at `await this.callAI(...)`; "over"
\*   invocations  how many times it has invoked callAI
\*   status       the text it handed to the progress sink before invoking
\*   result       what it returned or threw
NoTask ==
  [fn |-> "none", phase |-> "over", invocations |-> 0, status |-> StatusNone,
   result |-> Returned("")]

\* the function up to its await
generateTopicSuggestions ==
  [fn |-> "generateTopicSuggestions", phase |-> "awaiting", invocations |-> 1,
   status |-> StatusAnalyzing, result |-> Returned("")]
generateArticle ==
  [fn |-> "generateArticle", phase |-> "awaiting", invocations |-> 1,
   status |-> StatusWriting, result |-> Returned("")]

\* (a variant that asks the provider again when the text does not parse)
afterCallAI_AsksAgain(t, c) ==
  IF t.fn = "generateArticle" THEN [t EXCEPT !.phase = "over", !.result = c.result]
  ELSE IF ~c.result.ok
    THEN [t EXCEPT !.phase = "over", !.result = TopicsThrown(c.result.error)]
  ELSE IF ~ParseTopics(TextTokens(c.result.text)).ok
    THEN [t EXCEPT !.invocations = @ + 1]
  ELSE [t EXCEPT !.phase = "over", !.result = ParseTopics(TextTokens(c.result.text))]

\* the function after its await, callAI having returned or thrown
afterCallAI(t, c) ==
  IF t.fn = "generateArticle" THEN [t EXCEPT !.phase = "over", !.result = c.result]
  ELSE IF ~c.result.ok
    THEN [t EXCEPT !.phase = "over", !.result = TopicsThrown(c.result.error)]
  ELSE [t EXCEPT !.phase = "over", !.result = ParseTopics(TextTokens(c.result.text))]

\* ===== Material note (appendMaterial, getMaterialsContent) =====
\* Bounds of the material-note model
MaxAppends == 2

\* the texts selected for "Add Material"
Quotes == {"x", "y"}

\* The material note holds the header written by createMaterialNote (left out
\* here) followed by its "> [!quote]" blocks; a block is named by its quote.
\* vault.read on the note: a non-empty text whose quote blocks
\* countMaterials counts
NoteContent(blocks) == [kind |-> "text", quotes |-> Len(blocks), blocks |-> blocks]

\* getMaterialsContent
getMaterialsContent(sn, files, blocks) ==
  IF sn.materialNotePath = NoPath THEN [kind |-> "null", quotes |-> 0]
  ELSE IF sn.materialNotePath \notin files THEN [kind |-> "null", quotes |-> 0]
  ELSE NoteContent(blocks)

\* A running appendMaterial is a record: the quote, the await it is suspended
\* at ("read": vault.read, "modify": vault.modify) and its local currentContent
Appending(quote, pc, currentContent) ==
  [quote |-> quote, pc |-> pc, currentContent |-> currentContent]

\* appendMaterial(quote, ...) up to its first await; <<>> when it returns at
\* once (no material note path, or no file at that path)
appendMaterial(sn, files, quote) ==
  IF sn.materialNotePath = NoPath THEN <<>>
  ELSE IF sn.materialNotePath \notin files THEN <<>>
  ELSE <<Appending(quote, "read", <<>>)>>

\* currentContent + materialBlock
WithBlock(currentContent, quote) == Append(currentContent, quote)

\* ===== State =====
VARIABLES
  settings,     \* this.settings: the provider selected, whether its key is set
  call,         \* SpecCallAI: the callAI invocation
  outcomes,     \* SpecCallAI: what the provider attempts met, in order
  task,         \* SpecGenerate: the function awaiting the callAI invocation
  response,     \* SpecParse: the text callAI returned
  given,        \* SpecParse: the array the text was written from, if any
  parsed,       \* SpecParse: what generateTopicSuggestions made of it
  modal,        \* Spec: the fields of the GenerateArticleModal
  calls,        \* Spec: the callAI invocations the modal is awaiting, by slot
  notes,        \* Spec: notes created by createArticleNote
  edits,        \* Spec: edits of outline and style the user has made
  autoRequests, \* Spec: requests sent while the user has not acted
  userActed,    \* Spec: whether the user has clicked or typed anything
  session,      \* SpecSession: this.session
  vault,        \* SpecSession: the material notes in the vault, by path
  folder,       \* SpecSession: the state of the material-note folder
  starts,       \* SpecSession: the startThinkingSession calls under way
  startRequests, \* SpecSession: start requests made so far
  note,         \* SpecMaterials: the quote blocks of the material note
  appends,      \* SpecMaterials: the appendMaterial calls under way
  appended      \* SpecMaterials: appendMaterial calls that have completed

callVars == <<call, outcomes, task>>
parseVars == <<response, given, parsed>>
wizardVars == <<modal, calls, notes, edits, autoRequests, userActed>>
sessionVars == <<session, vault, folder, starts, startRequests>>
materialVars == <<note, appends, appended>>
vars == <<settings, call, outcomes, task, response, given, parsed,
          modal, calls, notes, edits, autoRequests, userActed,
          session, vault, folder, starts, startRequests,
          note, appends, appended>>

NotParsed == [ok |-> FALSE, topics |-> <<>>, error |-> NoError]
NothingGiven == [kind |-> "raw", items |-> <<>>]

CallIdle == call = NotStarted /\ outcomes = <<>> /\ task = NoTask
ParseIdle == response = <<>> /\ given = NothingGiven /\ parsed = NotParsed
SessionIdle ==
  /\ session = NoSession
  /\ vault = {}
  /\ folder = "root"
  /\ starts = <<>>
  /\ startRequests = 0
MaterialsIdle ==
  /\ note = <<>>
  /\ appends = <<>>
  /\ appended = 0
WizardIdle ==
  /\ modal = Constructed
  /\ calls = <<>>
  /\ notes = 0
  /\ edits = 0
  /\ autoRequests = 0
  /\ userActed = FALSE

\* ===== SpecCallAI: one invocation of callAI =====
CallAIInit ==
  /\ settings \in SettingsSet
  /\ CallIdle
  /\ SessionIdle
  /\ MaterialsIdle
  /\ ParseIdle
  /\ WizardIdle

\* callAI(prompt, onProgress) is invoked
Invoke ==
  /\ call.phase = "idle"
  /\ call' = CallAIStart(settings)
  /\ UNCHANGED <<settings, outcomes, task, parseVars, wizardVars, sessionVars, materialVars>>

\* the awaited provider client settles
ProviderSettles ==
  /\ AwaitsNetwork(call, settings)
  /\ \E o \in ProviderOutcomes :
       /\ call' = AttemptSettles(call, settings, o)
       /\ outcomes' = Append(outcomes, o)
  /\ UNCHANGED <<settings, task, parseVars, wizardVars, sessionVars, materialVars>>

\* the provider client throws before sending (no API key)
ProviderRefuses ==
  /\ FailsAtOnce(call, settings)
  /\ call' = AttemptSettles(call, settings, TimeoutOutcome)
  /\ UNCHANGED <<settings, outcomes, task, parseVars, wizardVars, sessionVars, materialVars>>

\* the backoff timer fires
BackoffElapses ==
  /\ call.phase = "sleep"
  /\ call' = SleepResolves(call, settings)
  /\ UNCHANGED <<settings, outcomes, task, parseVars, wizardVars, sessionVars, materialVars>>

CallAINext == Invoke \/ ProviderSettles \/ ProviderRefuses \/ BackoffElapses

SpecCallAI == CallAIInit /\ [][CallAINext]_vars

\* C3: when the first attempt fails with a rejected credential, the
\* invocation makes exactly one provider call and no backoff wait.
C3_AuthNotRetried ==
  (Len(call.errors) >= 1 /\ call.errors[1].kind = "keyinvalid")
    => (NumCalls(call) = 1 /\ Waits(call) = <<>>)

\* C4: attempts 1 and 2 fail with a retryable failure and attempt 3 succeeds:
\* exactly 3 provider calls, waits of 1000 ms then 2000 ms, and the text
\* returned is the text of attempt 3.
C4_RetryLaw ==
  (call.phase = "returned" /\ Len(call.errors) = 2 /\ AllRetryable(call.errors))
    => /\ NumCalls(call) = 3
       /\ Waits(call) = <<RETRY_DELAY, 2 * RETRY_DELAY>>
       /\ call.result.ok
       /\ call.result.text = outcomes[3].text

C4_Witness ==
  /\ call.phase = "returned" /\ Len(call.errors) = 2 /\ AllRetryable(call.errors)
  /\ call.errors[1].kind = "timeout" /\ call.errors[2].kind = "ratelimit"
  /\ call.result.text = "t2"

\* C5: every attempt fails with a retryable failure: exactly MAX_RETRIES
\* provider calls, exactly 2 waits and none after the last call, and the
\* failure thrown refers to the error of the third attempt.
C5_Exhaustion ==
  (call.phase = "thrown" /\ AllRetryable(call.errors))
    => /\ NumCalls(call) = MAX_RETRIES
       /\ Len(call.errors) = MAX_RETRIES
       /\ Len(Waits(call)) = 2
       /\ call.events[Len(call.events)].ev # "wait"
       /\ ~call.result.ok
       /\ call.result.error = ExhaustedError(call.errors[MAX_RETRIES])

C5_Witness ==
  /\ call.phase = "thrown" /\ AllRetryable(call.errors)
  /\ call.errors[1].kind = "timeout"
  /\ call.errors[3].kind = "malformed"
  /\ call.result.error.last.kind = "malformed"

\* C6: the provider succeeds on attempt 1: exactly one provider call, one
\* progress notification, no wait, and that attempt's text is returned.
C6_FirstAttemptSuccess ==
  (call.phase = "returned" /\ call.errors = <<>>)
    => /\ NumCalls(call) = 1
       /\ NumProgress(call) = 1
       /\ Waits(call) = <<>>
       /\ call.result.ok
       /\ call.result.text = outcomes[1].text

C6_Witness ==
  /\ call.phase = "returned" /\ call.errors = <<>>
  /\ call.result.text = "t1" /\ call.attempt = 1

\* ===== SpecParse: generateTopicSuggestions on the text callAI returned =====
\* Bounds of the texts tried
MaxRawLen == 3
MaxElements == 6
MaxGivenTopics == 2
MaxGivenOutline == 2

\* JSON.stringify, token by token: how a provider writes a value down
RECURSIVE Write(_)
RECURSIVE WriteItems(_)
WriteItems(items) ==
  IF items = <<>> THEN <<>>
  ELSE IF Len(items) = 1 THEN Write(items[1])
  ELSE Write(items[1]) \o <<COMMA>> \o WriteItems(Tail(items))

Write(value) ==
  IF value.t = "str" THEN <<value.v>>
  ELSE IF value.t = "arr" THEN <<LB>> \o WriteItems(value.items) \o <<RB>>
  ELSE IF value.outline = Undefined
    THEN <<IF value.title = "A" THEN "{A}" ELSE "{B}">>
  ELSE <<IF value.title = "A" THEN "{A:" ELSE "{B:">> \o Write(value.outline) \o <<CLOSE>>

\* elements that hold no array: strings, objects without an outline, objects
\* whose outline is a string
FlatValues == {Str("'p'"), Obj("A", Undefined), Obj("B", Str("'q'"))}
\* topic objects as the prompt asks for them: the outline an array of strings
OutlineArrays == {Arr(o) : o \in SeqsUpTo({Str(t) : t \in StrTokens}, MaxGivenOutline)}
WellFormedTopics == {Obj(title, o) : title \in {"A", "B"}, o \in OutlineArrays}

\* prose or a code fence around the array, holding no bracket
Wrap(toks, wrapped) == IF wrapped THEN <<PROSE>> \o toks \o <<PROSE, PROSE>> ELSE toks

ParseInit ==
  /\ settings \in {[aiProvider |-> "gemini", hasKey |-> TRUE]}
  /\ CallIdle
  /\ SessionIdle
  /\ MaterialsIdle
  /\ WizardIdle
  /\ parsed = NotParsed
  /\ \/ /\ response \in SeqsUpTo(Tokens, MaxRawLen)
        /\ given = NothingGiven
     \/ \E items \in SeqsUpTo(FlatValues, MaxElements), wrapped \in BOOLEAN :
          /\ response = Wrap(Write(Arr(items)), wrapped)
          /\ given = [kind |-> "flat", items |-> items]
     \/ \E items \in SeqsUpTo(WellFormedTopics, MaxGivenTopics) \ {<<>>},
           wrapped \in BOOLEAN :
          /\ response = Wrap(Write(Arr(items)), wrapped)
          /\ given = [kind |-> "topics", items |-> items]

\* the lines after `await this.callAI(prompt, onProgress)`
ParseResponse ==
  /\ parsed = NotParsed
  /\ parsed' = ParseTopics(response)
  /\ UNCHANGED <<settings, callVars, response, given, wizardVars, sessionVars, materialVars>>

ParseNext == ParseResponse

SpecParse == ParseInit /\ [][ParseNext]_vars

\* C7: a text that is a well-formed JSON array of 1..5 topic objects, each
\* with an outline that is an array of strings, with or without bracket-free
\* prose around it, is parsed into exactly those topics, in order.
C7_WellFormedTopicsParsed ==
  (parsed # NotParsed /\ given.kind = "topics")
    => parsed = TopicsReturned(given.items)

\* C8: more than 5 elements are cut to the first 5 in order; no element, or
\* no parsable array, gives the topic-parse error; a successful result has
\* 1..5 topics.
C8_TruncateOrFail ==
  parsed # NotParsed =>
    LET p == JSONparse(jsonMatch(response)) IN
    /\ (given.kind = "flat" /\ Len(given.items) > 5)
         => parsed = TopicsReturned(SubSeq(given.items, 1, 5))
    /\ (p.ok /\ Len(p.val.items) > 5)
         => parsed = TopicsReturned(SubSeq(p.val.items, 1, 5))
    /\ (given.kind = "flat" /\ given.items = <<>>) => parsed = TopicsThrown(TopicParseError)
    /\ (~p.ok \/ p.val.items = <<>>) => parsed = TopicsThrown(TopicParseError)
    /\ parsed.ok => Len(parsed.topics) \in 1..5

C8_Witness ==
  /\ given.kind = "flat" /\ Len(given.items) = 6
  /\ given.items[1] # given.items[2] /\ given.items[6] # given.items[5]
  /\ parsed.ok /\ Len(parsed.topics) = 5
  /\ response[1] = PROSE

\* ===== Spec: the wizard =====
\* the calls of one step keep no history: the log of an invocation is what
\* SpecCallAI is about
Forget(c) == [c EXCEPT !.events = <<>>, !.errors = <<>>]

\* the settings and provider outcomes the wizard is run under
WizardSettings == {st \in SettingsSet : st.aiProvider = "gemini"}
WizardOutcomes == {ResponseOutcome(400, "missing", ""), ResponseOutcome(200, "text", "t1")}

World ==
  [opened |-> modal.opened, step |-> modal.step, topics |-> modal.topics,
   selectedTopic |-> modal.selectedTopic, editedOutline |-> modal.editedOutline,
   selectedPersona |-> modal.selectedPersona, selectedLength |-> modal.selectedLength,
   customInstructions |-> modal.customInstructions, isLoading |-> modal.isLoading,
   loadingStatus |-> modal.loadingStatus, lastError |-> modal.lastError,
   materialsContent |-> modal.materialsContent, materialCount |-> modal.materialCount,
   calls |-> calls, notes |-> notes, edits |-> edits, autoRequests |-> autoRequests,
   userActed |-> userActed, settings |-> settings, overflow |-> FALSE]

Commit(world) ==
  \E w \in {world} :
    /\ ~w.overflow
    /\ modal' = [f \in ModalFields |-> w[f]]
    /\ calls' = [i \in DOMAIN w.calls |-> [w.calls[i] EXCEPT !.c = Forget(@)]]
    /\ notes' = w.notes
    /\ edits' = w.edits
    /\ autoRequests' = w.autoRequests
    /\ userActed' = w.userActed
    /\ UNCHANGED <<settings, callVars, parseVars, sessionVars, materialVars>>

Init ==
  /\ settings \in WizardSettings
  /\ CallIdle
  /\ SessionIdle
  /\ MaterialsIdle
  /\ ParseIdle
  /\ WizardIdle

\* new GenerateArticleModal(app, plugin).open()
Open ==
  /\ modal.opened = "constructed"
  /\ \E content \in MaterialsContents : Commit(onOpen(World, content))

Retry == BannerShown(World) /\ Commit(retryClick(World))

SelectTopic == \E i \in DOMAIN modal.topics :
  TopicOptionShown(World, i) /\ Commit(topicClick(World, i))

EnterCustomTopic == \E value \in CustomInputs :
  Step1ButtonsShown(World) /\ Commit(customClick(World, value))

Regenerate == Step1ButtonsShown(World) /\ Commit(refreshClick(World))

\* the cancel button of step 1, the close button of the empty state, or the
\* modal's own close control
Close == IsOpen(World) /\ Commit(closeModal(World))

Next1 ==
  /\ Step1ButtonsShown(World)
  /\ ~modal.selectedTopic.isNull
  /\ Commit(next1Click(World))

EditEntry == \E i \in DOMAIN modal.editedOutline, value \in EntryInputs :
  Step2Shown(World) /\ Commit(outlineInput(World, i, value))

DeleteEntry == \E i \in DOMAIN modal.editedOutline :
  Step2Shown(World) /\ Commit(deleteClick(World, i))

AddEntry ==
  /\ Step2Shown(World)
  /\ Len(modal.editedOutline) < MaxOutline
  /\ Commit(addClick(World))

Back2 == Step2Shown(World) /\ Commit(back2Click(World))

Next2 == Step2Shown(World) /\ Commit(next2Click(World))

PickPersona == \E persona \in PersonaPicks :
  Step3Shown(World) /\ Commit(personaClick(World, persona))

PickLength == \E length \in LengthPicks :
  Step3Shown(World) /\ Commit(lengthClick(World, length))

EditInstructions == \E value \in InstructionInputs :
  Step3Shown(World) /\ Commit(instructionsInput(World, value))

Back3 == Step3Shown(World) /\ Commit(back3Click(World))

Generate == Step3Shown(World) /\ Commit(generateClick(World))

\* the provider client awaited by the invocation in some slot settles
ProviderAnswers == \E slot \in InFlight(World), o \in WizardOutcomes :
  /\ AwaitsNetwork(calls[slot].c, settings)
  /\ LET c == AttemptSettles(calls[slot].c, settings, o) IN
     IF c.phase # "returned"
       THEN Commit(CallMoves(World, slot, c, TopicsThrown(TopicParseError), FALSE))
     ELSE IF calls[slot].kind = "topics"
       THEN \E synth \in SynthesizerResults :
              Commit(CallMoves(World, slot, c, synth, FALSE))
       ELSE \E noteCreated \in BOOLEAN :
              Commit(CallMoves(World, slot, c, TopicsThrown(TopicParseError), noteCreated))

\* the backoff timer of the invocation in some slot fires
BackoffOver == \E slot \in InFlight(World) :
  /\ calls[slot].c.phase = "sleep"
  /\ Commit(CallMoves(World, slot,
                      SettleAtOnce(SleepResolves(calls[slot].c, settings), settings),
                      TopicsThrown(TopicParseError), FALSE))

Next ==
  \/ Open \/ Retry \/ SelectTopic \/ EnterCustomTopic \/ Regenerate \/ Close \/ Next1
  \/ EditEntry \/ DeleteEntry \/ AddEntry \/ Back2 \/ Next2
  \/ PickPersona \/ PickLength \/ EditInstructions \/ Back3 \/ Generate
  \/ ProviderAnswers \/ BackoffOver

Spec == Init /\ [][Next]_vars

\* C1: at most one provider call of the wizard is outstanding at any time.
C1_OneCallAtATime == Len(calls) <= 1

\* C2: when the synthesis started on opening fails, the wizard rests in
\* step 1 with lastError set, isLoading false and topics empty, and starts no
\* call until the user acts: without a user action at most MAX_RETRIES
\* requests are sent.
C2_RestsAfterFailedSynthesis ==
  ~userActed =>
    /\ autoRequests <= MAX_RETRIES
    /\ (modal.lastError # NoError /\ modal.step = 1)
         => (~modal.isLoading /\ modal.topics = <<>> /\ calls = <<>>)

C11_ComposerGetsMaterials ==
  \A i \in DOMAIN calls :
    calls[i].kind = "article" =>
      /\ Truthy(calls[i].prompt.materials)
      /\ calls[i].prompt.materials = modal.materialsContent

C11_Witness ==
  /\ modal.step = 4
  /\ \E i \in DOMAIN calls :
       calls[i].kind = "article" /\ calls[i].prompt.materials.quotes >= 1

\* C12: a wizard opened with a material count below 1 starts no provider
\* call, stays in step 1 showing the empty state, and offers nothing but
\* closing.
C12_EmptyStateIsTerminal ==
  (modal.opened # "constructed" /\ modal.materialCount < 1) =>
    /\ calls = <<>> /\ autoRequests = 0
    /\ modal.step = 1 /\ ~modal.isLoading
    /\ modal.topics = <<>> /\ modal.selectedTopic.isNull
    /\ modal.lastError = NoError
    /\ ~userActed
    /\ IsOpen(World) => EmptyStateShown(World)
    /\ ~BannerShown(World) /\ ~Step1ButtonsShown(World)
    /\ ~Step2Shown(World) /\ ~Step3Shown(World)

C12_Witness ==
  /\ modal.opened = "closed"
  /\ modal.materialCount < 1
  /\ Truthy(modal.materialsContent)

\* ===== SpecOutline: the outline editor of step 2 =====
\* The editor is entered with each outline a selected topic can carry: the
\* wizard is opened on a note with one quote, the provider answers, the
\* synthesizer hands over one topic, the user clicks it and then Next.
MaxStartOutline == 4
StartEntries == {"p", "q"}
StartOutlines == SeqsUpTo(StartEntries, MaxStartOutline)

Fresh(st) ==
  [f \in ModalFields |-> Constructed[f]] @@
  [calls |-> <<>>, notes |-> 0, edits |-> 0, autoRequests |-> 0,
   userActed |-> FALSE, settings |-> st, overflow |-> FALSE]

EditorEntered(st, outline) ==
  CHOOSE w \in
    {next1Click(topicClick(w2, 1)) :
       w2 \in {CallMoves(w1, 1,
                         AttemptSettles(w1.calls[1].c, st, ResponseOutcome(200, "text", "t1")),
                         TopicsReturned(<<TopicSuggestion("A", "d", TRUE, outline)>>),
                         FALSE) :
                 w1 \in {onOpen(Fresh(st), [kind |-> "text", quotes |-> 1])}}} : TRUE

OutlineInit ==
  /\ settings \in {[aiProvider |-> "gemini", hasKey |-> TRUE]}
  /\ CallIdle
  /\ SessionIdle
  /\ MaterialsIdle
  /\ ParseIdle
  /\ \E outline \in StartOutlines :
       \E w \in {EditorEntered(settings, outline)} :
         /\ modal = [f \in ModalFields |-> w[f]]
         /\ calls = w.calls
         /\ notes = w.notes
         /\ edits = w.edits
         /\ autoRequests = w.autoRequests
         /\ userActed = w.userActed

OutlineNext == EditEntry \/ DeleteEntry \/ AddEntry \/ Back2 \/ Next2

SpecOutline == OutlineInit /\ [][OutlineNext]_vars

\* C13: a delete on an outline of 2 entries or fewer leaves editedOutline,
\* step and selectedTopic as they were; on a longer outline it removes the
\* addressed entry and nothing else, the others keeping their order.
C13_DeleteLaw ==
  [][\A i \in DOMAIN modal.editedOutline :
       (Step2Shown(World) /\ Commit(deleteClick(World, i))) =>
         IF Len(modal.editedOutline) <= 2
           THEN /\ modal'.editedOutline = modal.editedOutline
                /\ modal'.step = modal.step
                /\ modal'.selectedTopic = modal.selectedTopic
           ELSE /\ Len(modal'.editedOutline) = Len(modal.editedOutline) - 1
                /\ \A j \in 1..(i - 1) :
                     modal'.editedOutline[j] = modal.editedOutline[j]
                /\ \A j \in i..(Len(modal.editedOutline) - 1) :
                     modal'.editedOutline[j] = modal.editedOutline[j + 1]]_vars

C13_Witness ==
  /\ modal.step = 2
  /\ edits = 1
  /\ modal.selectedTopic.topic.outline = <<"p", "q", "p", "q">>
  /\ modal.editedOutline = <<"p", "p", "q">>

\* the callAI record the invocation in `slot` can move to in one step
CallSteps(slot) ==
  IF AwaitsNetwork(calls[slot].c, settings)
    THEN {AttemptSettles(calls[slot].c, settings, o) : o \in WizardOutcomes}
  ELSE IF calls[slot].c.phase = "sleep"
    THEN {SettleAtOnce(SleepResolves(calls[slot].c, settings), settings)}
  ELSE {}

\* C14: when a composition call fails on its last attempt, the wizard is in
\* step 3 with lastError the failure thrown by callAI and isLoading false; no
\* note is created, the wizard is not closed, no call is started, and
\* selectedTopic, editedOutline, persona, length and custom instructions are
\* as before.
C14_CompositionFailure ==
  [][\A slot \in DOMAIN calls : \A c \in CallSteps(slot) :
       (/\ calls[slot].kind = "article"
        /\ c.phase = "thrown"
        /\ Commit(CallMoves(World, slot, c, TopicsThrown(TopicParseError), FALSE))) =>
         /\ c.result.error = ExhaustedError(c.lastError)
         /\ c.attempt = MAX_RETRIES
         /\ modal'.step = 3
         /\ modal'.lastError = c.result.error
         /\ ~modal'.isLoading
         /\ notes' = notes
         /\ modal'.opened = modal.opened
         /\ Len(calls') = Len(calls) - 1
         /\ modal'.selectedTopic = modal.selectedTopic
         /\ modal'.editedOutline = modal.editedOutline
         /\ modal'.selectedPersona = modal.selectedPersona
         /\ modal'.selectedLength = modal.selectedLength
         /\ modal'.customInstructions = modal.customInstructions]_vars

C14_Witness ==
  /\ modal.step = 3 /\ modal.opened = "open" /\ ~modal.isLoading
  /\ modal.lastError.kind = "exhausted"
  /\ calls = <<>> /\ notes = 0
  /\ modal.selectedPersona = "blog"
  /\ ~modal.selectedTopic.isNull

C16_EmptyCustomTitleRejected ==
  [][\A value \in CustomInputs :
       (/\ Trim(value) = ""
        /\ Step1ButtonsShown(World)
        /\ Commit(customClick(World, value))) =>
         /\ modal' = modal
         /\ calls' = calls
         /\ notes' = notes]_vars

C16_Witness ==
  /\ Step1ButtonsShown(World)
  /\ userActed /\ autoRequests = 0 /\ edits = 0
  /\ modal.selectedTopic.isNull
  /\ modal.lastError = NoError
  /\ calls = <<>>

\* C17: when an attempt fails because the provider blocked the content, the
\* invocation ends there: one provider call, no backoff wait, and the error
\* thrown to the caller (the wizard's lastError) is the provider client's
\* error itself.
C17_BlockedNotRetried ==
  (Len(call.errors) >= 1 /\ call.errors[1].kind = "blocked") =>
    /\ NumCalls(call) = 1
    /\ Waits(call) = <<>>
    /\ call.phase = "thrown"
    /\ call.result = Thrown(call.errors[1])

\* ===== SpecSession: starting and ending the thinking session =====
\* material notes left in the vault by earlier sessions
EarlierNotes(folderState) ==
  {{}, {Path("root", "A", 0)}}
    \cup (IF folderState = "present" THEN {{Path("F", "A", 0)}} ELSE {})

SessionInit ==
  /\ settings \in {[aiProvider |-> "gemini", hasKey |-> TRUE]}
  /\ CallIdle
  /\ ParseIdle
  /\ WizardIdle
  /\ session = NoSession
  /\ folder \in FolderStates
  /\ vault \in EarlierNotes(folder)
  /\ starts = <<>>
  /\ startRequests = 0
  /\ MaterialsIdle

\* the command or the ribbon icon calls startThinkingSession(activeFile)
StartRequest == \E source \in Sources :
  /\ startRequests < MaxStartRequests
  /\ Len(starts) < MaxPendingStarts
  /\ starts' = starts \o startThinkingSession(session, folder, vault, source)
  /\ startRequests' = startRequests + 1
  /\ UNCHANGED <<settings, callVars, parseVars, wizardVars, materialVars, session, vault, folder>>

\* vault.createFolder settles (its error is logged and dropped): the file name
\* is chosen and vault.create is called
FolderSettles == \E i \in DOMAIN starts, ok \in BOOLEAN :
  /\ starts[i].pc = "folder"
  /\ folder' = IF ok THEN "present" ELSE folder
  /\ starts' = [starts EXCEPT ![i] =
                  Suspended(starts[i].source, "create",
                            FreeName(vault, "F", starts[i].source))]
  /\ UNCHANGED <<settings, callVars, parseVars, wizardVars, materialVars, session, vault, startRequests>>

\* vault.create(fileName) settles: the session is set and the layout is
\* started, or the catch block tries the vault root
CreateSettles == \E i \in DOMAIN starts, io \in BOOLEAN :
  /\ starts[i].pc = "create"
  /\ IF CreateSucceeds(vault, folder, starts[i].path, io)
       THEN /\ vault' = vault \cup {starts[i].path}
            /\ session' = ActiveSession(starts[i].source, starts[i].path)
            /\ starts' = [starts EXCEPT ![i].pc = "layout"]
       ELSE /\ starts' = [starts EXCEPT ![i] =
                            Suspended(starts[i].source, "fallback",
                                      Path("root", starts[i].source, 0))]
            /\ UNCHANGED <<vault, session>>
  /\ UNCHANGED <<settings, callVars, parseVars, wizardVars, materialVars, folder, startRequests>>

\* vault.create(rootFileName) settles: the session is set, or
\* createMaterialNote returns null and startThinkingSession gives up
FallbackSettles == \E i \in DOMAIN starts, io \in BOOLEAN :
  /\ starts[i].pc = "fallback"
  /\ IF CreateSucceeds(vault, folder, starts[i].path, io)
       THEN /\ vault' = vault \cup {starts[i].path}
            /\ session' = ActiveSession(starts[i].source, starts[i].path)
            /\ starts' = [starts EXCEPT ![i].pc = "layout"]
       ELSE /\ starts' = RemoveAt(starts, i)
            /\ UNCHANGED <<vault, session>>
  /\ UNCHANGED <<settings, callVars, parseVars, wizardVars, materialVars, folder, startRequests>>

\* setupThreePanelLayout stores the leaf ids in this.session and returns
LayoutDone == \E i \in DOMAIN starts :
  /\ starts[i].pc = "layout"
  /\ session' = [session EXCEPT !.leaves = TRUE]
  /\ starts' = RemoveAt(starts, i)
  /\ UNCHANGED <<settings, callVars, parseVars, wizardVars, materialVars, vault, folder, startRequests>>

\* endThinkingSession
EndSession ==
  /\ session.isActive
  /\ session' = NoSession
  /\ UNCHANGED <<settings, callVars, parseVars, wizardVars, materialVars, vault, folder, starts,
                 startRequests>>

SessionNext ==
  \/ StartRequest \/ FolderSettles \/ CreateSettles \/ FallbackSettles
  \/ LayoutDone \/ EndSession

SpecSession == SessionInit /\ [][SessionNext]_vars

\* C18: while a session is active no material note is created and the
\* session is not set again, whatever start requests are made or under way.
C18_OneSessionAtATime ==
  [][session.isActive =>
       /\ vault' = vault
       /\ session'.isActive =>
            /\ session'.sourceFilePath = session.sourceFilePath
            /\ session'.materialNotePath = session.materialNotePath]_vars

\* the provider calls and the backoff waits of a log
IsCallOrWait(e) == IsCall(e) \/ IsWait(e)

\* C19: the attempts of one invocation are made one after the other: the
\* provider calls are numbered 1, 2, 3 in order; at most one of them has no
\* outcome yet, and that is the case exactly while the invocation awaits the
\* provider; and every call after the first comes after the backoff wait
\* that follows the failure of the one before it.
C19_AttemptsSequential ==
  LET made == SelectSeq(call.events, IsCall)
      steps == SelectSeq(call.events, IsCallOrWait)
      known == Len(call.errors) + (IF call.phase = "returned" THEN 1 ELSE 0)
  IN /\ \A k \in DOMAIN made : made[k].n = k
     /\ Len(made) - known \in {0, 1}
     /\ (Len(made) - known = 1) <=> (call.phase = "request")
     /\ \A p \in DOMAIN steps :
          IsCall(steps[p]) /\ steps[p].n >= 2 =>
            /\ IsWait(steps[p - 1])
            /\ steps[p - 1].n = RETRY_DELAY * Pow2(steps[p].n - 2)
            /\ IsCall(steps[p - 2]) /\ steps[p - 2].n = steps[p].n - 1
            /\ Len(call.errors) >= steps[p].n - 1

C19_Witness ==
  /\ call.phase = "request" /\ call.attempt = 3
  /\ Len(call.errors) = 2
  /\ call.errors[1].kind = "timeout"
  /\ NumCalls(call) = 3

\* C20: the retry button of the error banner clears lastError; in step 1
\* with no topics it starts exactly one synthesis call; in every other state
\* it changes no other field of the wizard and starts no call.
C20_RetryButton ==
  [][(BannerShown(World) /\ Commit(retryClick(World))) =>
       /\ modal'.lastError = NoError
       /\ IF modal.step = 1 /\ modal.topics = <<>>
            THEN /\ Len(calls') = Len(calls) + 1
                 /\ SubSeq(calls', 1, Len(calls)) = calls
                 /\ calls'[Len(calls')].kind = "topics"
                 /\ modal'.step = 1 /\ modal'.topics = <<>>
            ELSE /\ calls' = calls
                 /\ modal' = [modal EXCEPT !.lastError = NoError]
       /\ notes' = notes]_vars

C20_Witness ==
  /\ IsOpen(World) /\ userActed
  /\ modal.step = 1 /\ modal.topics = <<>>
  /\ modal.lastError = NoError
  /\ Len(calls) = 2
  /\ \A i \in DOMAIN calls : calls[i].kind = "topics"

\* ===== SpecMaterials: the material note and the wizard reading it =====
\* A session with its material note (or no session); materials are added
\* through the ThoughtModal while the wizard is opened and used.
MaterialsInit ==
  /\ settings \in {[aiProvider |-> "gemini", hasKey |-> TRUE]}
  /\ CallIdle
  /\ ParseIdle
  /\ WizardIdle
  /\ session \in {NoSession, [ActiveSession("A", Path("root", "A", 0)) EXCEPT !.leaves = TRUE]}
  /\ vault = IF session.isActive THEN {session.materialNotePath} ELSE {}
  /\ folder = "root"
  /\ starts = <<>>
  /\ startRequests = 0
  /\ MaterialsIdle

\* addBtn.onclick of the ThoughtModal: appendMaterial runs to its first await
AddMaterial == \E quote \in Quotes :
  /\ appended + Len(appends) < MaxAppends
  /\ appends' = appends \o appendMaterial(session, vault, quote)
  /\ UNCHANGED <<settings, callVars, parseVars, wizardVars, sessionVars, note, appended>>

\* vault.read(materialFile) settles: currentContent is the text of the note
ReadSettles == \E i \in DOMAIN appends :
  /\ appends[i].pc = "read"
  /\ appends' = [appends EXCEPT ![i] = Appending(appends[i].quote, "modify", note)]
  /\ UNCHANGED <<settings, callVars, parseVars, wizardVars, sessionVars, note, appended>>

\* vault.modify(materialFile, currentContent + materialBlock) settles
ModifySettles == \E i \in DOMAIN appends :
  /\ appends[i].pc = "modify"
  /\ note' = WithBlock(appends[i].currentContent, appends[i].quote)
  /\ appends' = RemoveAt(appends, i)
  /\ appended' = appended + 1
  /\ UNCHANGED <<settings, callVars, parseVars, wizardVars, sessionVars>>

\* new GenerateArticleModal(app, plugin).open(): onOpen reads the note
OpenOnNote ==
  /\ modal.opened = "constructed"
  /\ Commit(onOpen(World, getMaterialsContent(session, vault, note)))

MaterialsNext ==
  \/ AddMaterial \/ ReadSettles \/ ModifySettles
  \/ OpenOnNote \/ Retry \/ SelectTopic \/ Regenerate \/ Next1 \/ Next2 \/ Generate
  \/ ProviderAnswers \/ BackoffOver

SpecMaterials == MaterialsInit /\ [][MaterialsNext]_vars

\* C21: a call under way keeps the materials it was started with while
\* materials are appended, and every call the wizard starts (on opening, by
\* regeneration, by retry, by generate) is given the text the material note
\* holds at that moment.
C21_CallsUseCurrentMaterials ==
  [][/\ note' # note => calls' = calls
     /\ (/\ Len(calls') = Len(calls) + 1
         /\ SubSeq(calls', 1, Len(calls)) = calls) =>
          calls'[Len(calls')].prompt.materials = getMaterialsContent(session, vault, note)]_vars

\* C22: every completed appendMaterial leaves the blocks the note held in
\* place and adds exactly one block after them, and once n calls have
\* completed and none is under way the note holds n quote blocks.
C22_AppendOnly ==
  /\ [][appended' = appended + 1 =>
          /\ Len(note') = Len(note) + 1
          /\ SubSeq(note', 1, Len(note)) = note]_vars
  /\ []((session.isActive /\ appends = <<>>) => Len(note) = appended)

\* ===== More on the wizard (Spec) =====
\* C23: the custom-topic button pressed on a title that is not blank selects
\* a topic with the trimmed title and the default outline of 4 entries, sets
\* editedOutline to that outline, takes step from 1 to 2, leaves topics as
\* they were and starts no provider call.
C23_CustomTopic ==
  [][\A value \in CustomInputs :
       (/\ Trim(value) # ""
        /\ Step1ButtonsShown(World)
        /\ Commit(customClick(World, value))) =>
         /\ ~modal'.selectedTopic.isNull
         /\ modal'.selectedTopic.topic.title = "T"
         /\ modal'.selectedTopic.topic.hasOutline
         /\ modal'.selectedTopic.topic.outline = DefaultOutline
         /\ Len(modal'.selectedTopic.topic.outline) = 4
         /\ modal'.editedOutline = DefaultOutline
         /\ modal.step = 1 /\ modal'.step = 2
         /\ modal'.topics = modal.topics
         /\ calls' = calls
         /\ notes' = notes]_vars

C23_Witness ==
  /\ Step2Shown(World)
  /\ modal.selectedTopic.index = 0
  /\ modal.selectedTopic.topic.title = "T"
  /\ modal.editedOutline = DefaultOutline
  /\ modal.topics # <<>>
  /\ edits = 0

\* ===== SpecDeadline: callAI with the time its requests take =====
\* Times are in ms since callAI was invoked. A request takes half the
\* timeout, exactly the timeout, or half as long again.
Durations == {API_TIMEOUT \div 2, API_TIMEOUT, API_TIMEOUT + API_TIMEOUT \div 2}

\* when attempt k begins: at once, or when the backoff wait after the attempt
\* before it is over
AttemptBegan(log, k) ==
  IF k = 1 THEN 0 ELSE log[k - 1].ended + RETRY_DELAY * Pow2(k - 2)

\* (a variant whose timer runs from the invocation of callAI)
TimerFires_FromInvocation(began, timeoutMs) == timeoutMs

\* withTimeout: setTimeout(..., timeoutMs) is called when the attempt's
\* request has just been made
TimerFires(began, timeoutMs) == began + timeoutMs

\* Promise.race([promise, timeoutPromise]) for a request made at `began`
\* that meets outcome o after `took` ms: what the race can settle with (either
\* when both settle in the same ms), and when
Raced(o, began, took, timeoutMs) ==
  LET fires == TimerFires(began, timeoutMs)
      timely == o @@ [began |-> began, took |-> took, ended |-> began + took]
      late == TimeoutOutcome @@ [began |-> began, took |-> took, ended |-> fires]
  IN IF began + took < fires THEN {timely}
     ELSE IF began + took > fires THEN {late}
     ELSE {timely, late}

DeadlineInit ==
  /\ settings \in {st \in SettingsSet : st.hasKey}
  /\ CallIdle
  /\ SessionIdle
  /\ MaterialsIdle
  /\ ParseIdle
  /\ WizardIdle

\* the request of the current attempt or its timer settles the race
RaceSettles ==
  /\ AwaitsNetwork(call, settings)
  /\ \E o \in ProviderOutcomes \ {TimeoutOutcome}, took \in Durations :
       \E r \in Raced(o, AttemptBegan(outcomes, call.attempt), took, API_TIMEOUT) :
         /\ call' = AttemptSettles(call, settings, r)
         /\ outcomes' = Append(outcomes, r)
  /\ UNCHANGED <<settings, task, parseVars, wizardVars, sessionVars, materialVars>>

DeadlineNext == Invoke \/ RaceSettles \/ BackoffElapses

SpecDeadline == DeadlineInit /\ [][DeadlineNext]_vars

\* C24: every attempt is measured against its own 60 s, counted from the
\* start of that attempt: a request that takes longer fails its attempt with
\* the timeout error 60 s after the attempt began, which is retried like any
\* failure; a request that takes less is never timed out, however long the
\* invocation has been running.
C24_DeadlinePerAttempt ==
  \A k \in DOMAIN outcomes :
    LET o == outcomes[k] IN
    /\ o.began = AttemptBegan(outcomes, k)
    /\ o.took > API_TIMEOUT =>
         /\ o.type = "timeout"
         /\ o.ended = o.began + 60000
         /\ call.errors[k] = TimeoutError(API_TIMEOUT)
         /\ call.errors[k].status = 60
         /\ call.errors[k].kind \in RetryableKinds
         /\ k < MAX_RETRIES => (call.phase = "sleep" \/ NumCalls(call) > k)
    /\ o.took < API_TIMEOUT =>
         /\ o.type = "response"
         /\ o.ended = o.began + o.took
         /\ k <= Len(call.errors) => call.errors[k].kind # "timeout"

C24_Witness ==
  /\ Len(outcomes) = 3
  /\ outcomes[1].type = "timeout" /\ outcomes[2].type = "timeout"
  /\ outcomes[3].began > 2 * API_TIMEOUT
  /\ outcomes[3].took < API_TIMEOUT
  /\ call.phase = "returned" /\ call.result.text = "t1"

\* ===== More on callAI (SpecCallAI) =====
\* C25: whatever the provider, a response is classified by its status first:
\* 401 gives the credential-invalid error, 429 the rate-limit error, any
\* other status but 200 the generic error carrying the status; a 200 without
\* the text field gives the malformed-response error, or the content-blocked
\* error when it carries the safety marker.
C25_UniformClassification ==
  settings.hasKey =>
    \A k \in DOMAIN call.errors :
      LET o == outcomes[k]
          e == call.errors[k] IN
      o.type = "response" =>
        /\ e.provider = settings.aiProvider
        /\ o.status = 401 => e.kind = "keyinvalid"
        /\ o.status = 429 => e.kind = "ratelimit"
        /\ o.status \notin {200, 401, 429} => (e.kind = "apierror" /\ e.status = o.status)
        /\ (o.status = 200 /\ o.body = "missing") => e.kind = "malformed"
        /\ (o.status = 200 /\ o.body = "safety") => e.kind = "blocked"

\* ===== SpecGenerate: one call of generateTopicSuggestions or generateArticle =====
GenerateInit ==
  /\ settings \in SettingsSet
  /\ CallIdle
  /\ SessionIdle
  /\ MaterialsIdle
  /\ ParseIdle
  /\ WizardIdle

\* the function is called: it notifies the sink and invokes callAI
CallFunction == \E t \in {generateTopicSuggestions, generateArticle} :
  /\ task = NoTask
  /\ task' = t
  /\ call' = CallAIStart(settings)
  /\ UNCHANGED <<settings, outcomes, parseVars, wizardVars, sessionVars, materialVars>>

\* callAI is over: the function goes on after its await (and would invoke
\* callAI anew if it were still awaiting afterwards)
FunctionResumes ==
  /\ task.phase = "awaiting"
  /\ CallOver(call)
  /\ task' = afterCallAI(task, call)
  /\ call' = IF task'.phase = "awaiting" THEN CallAIStart(settings) ELSE call
  /\ UNCHANGED <<settings, outcomes, parseVars, wizardVars, sessionVars, materialVars>>

GenerateNext ==
  CallFunction \/ ProviderSettles \/ ProviderRefuses \/ BackoffElapses \/ FunctionResumes

SpecGenerate == GenerateInit /\ [][GenerateNext]_vars

\* C26: a call of generateTopicSuggestions or generateArticle invokes callAI
\* once; it ends when callAI ends; a failure of callAI is what it throws; a
\* returned text is what generateArticle returns; and a returned text that
\* does not parse gives the topic-parse error with no provider request beyond
\* those of the one invocation.
C26_NoRetryOfTheirOwn ==
  task.fn # "none" =>
    /\ task.invocations = 1
    /\ NumCalls(call) <= MAX_RETRIES
    /\ Len(SelectSeq(call.events, IsRequest))
         = Len(outcomes) + (IF AwaitsNetwork(call, settings) THEN 1 ELSE 0)
    /\ task.phase = "over" => CallOver(call)
    /\ (task.phase = "over" /\ ~call.result.ok) =>
         (~task.result.ok /\ task.result.error = call.result.error)
    /\ (task.phase = "over" /\ call.result.ok /\ task.fn = "generateArticle") =>
         task.result = call.result
    /\ (task.phase = "over" /\ call.result.ok /\ task.fn = "generateTopicSuggestions"
          /\ call.result.text = "t2") =>
         /\ task.result = TopicsThrown(TopicParseError)
         /\ NumCalls(call) = Len(call.errors) + 1

C26_Witness ==
  /\ task.fn = "generateTopicSuggestions" /\ task.phase = "over"
  /\ task.result = TopicsThrown(TopicParseError)
  /\ call.result.ok /\ call.attempt = 2
  /\ Len(outcomes) = 2

\* ===== SpecKey: the wizard while the API key is taken out of the settings =====
\* the settings tab: the key field of the selected provider is emptied (here
\* while no call of the wizard is under way)
ClearKey ==
  /\ settings.hasKey
  /\ calls = <<>>
  /\ settings' = [settings EXCEPT !.hasKey = FALSE]
  /\ UNCHANGED <<callVars, parseVars, wizardVars, sessionVars, materialVars>>

KeyNext ==
  \/ Open \/ SelectTopic \/ Next1 \/ Next2 \/ Generate \/ Retry
  \/ ProviderAnswers \/ BackoffOver \/ ClearKey

SpecKey == Init /\ [][KeyNext]_vars

\* the requests among the events of a callAI record
Requests(c) == SelectSeq(c.events, IsRequest)

\* C27: with no API key set, no step of a call sends a request; the generate
\* button of step 3 starts a composition call whose first attempt has failed
\* already without a request; when that call ends the wizard is in step 3,
\* open, not loading, with lastError the failure of callAI over the
\* missing-key error; and no note is created.
C27_NoKey ==
  [][~settings.hasKey =>
       /\ notes' = notes
       /\ \A slot \in DOMAIN calls :
            /\ ~AwaitsNetwork(calls[slot].c, settings)
            /\ \A c \in CallSteps(slot) : Requests(c) = <<>>
       /\ (Step3Shown(World) /\ Commit(generateClick(World))) =>
            \E w \in {generateClick(World)} :
              /\ Len(w.calls) = Len(calls) + 1
              /\ w.calls[Len(w.calls)].kind = "article"
              /\ Requests(w.calls[Len(w.calls)].c) = <<>>
              /\ w.calls[Len(w.calls)].c.phase = "sleep"
              /\ w.calls[Len(w.calls)].c.lastError.kind = "nokey"
              /\ modal'.step = 4 /\ modal'.isLoading
       /\ \A slot \in DOMAIN calls : \A c \in CallSteps(slot) :
            (/\ calls[slot].kind = "article"
             /\ CallOver(c)
             /\ Commit(CallMoves(World, slot, c, TopicsThrown(TopicParseError), FALSE))) =>
              /\ modal'.step = 3
              /\ modal'.lastError = ExhaustedError(Err("nokey", settings.aiProvider, 0))
              /\ ~modal'.isLoading
              /\ modal'.opened = modal.opened]_vars

C27_Witness ==
  /\ ~settings.hasKey
  /\ Step3Shown(World) /\ BannerShown(World)
  /\ modal.lastError = ExhaustedError(Err("nokey", "gemini", 0))
  /\ calls = <<>> /\ notes = 0
  /\ ~modal.selectedTopic.isNull

\* what a log of callAI is without its progress notifications: the log of the
\* same invocation with no sink supplied (onProgress?.(...) does nothing)
NotProgress(e) == ~IsProgress(e)
Silent(c) == [c EXCEPT !.events = SelectSeq(c.events, NotProgress)]
NotRequest(e) == ~IsRequest(e)

\* C28: in the log of an invocation every provider call and every backoff
\* wait comes directly after its own progress notification (attempt k after
\* the notice of attempt k, a wait of d ms after the notice of d/1000 s) and
\* there is no other notification; and every step of the invocation does to
\* the log without notifications what it does to the log with them: calls,
\* waits, phase and result do not depend on the sink.
C28_ProgressAdvisory ==
  /\ [](LET ev == SelectSeq(call.events, NotRequest) IN
        /\ Len(ev) % 2 = 0
        /\ \A p \in DOMAIN ev :
             IF p % 2 = 1
               THEN IsProgress(ev[p])
               ELSE \/ /\ IsCall(ev[p])
                       /\ ev[p - 1] = Event("progress", ev[p].n)
                       /\ ev[p].n = Len(SelectSeq(SubSeq(ev, 1, p), IsCall))
                    \/ /\ IsWait(ev[p])
                       /\ ev[p - 1] = Event("progressWait", ev[p].n \div 1000)
                       /\ p >= 4 /\ IsCall(ev[p - 2])
        /\ NumProgress(call) = NumCalls(call) + Len(Waits(call)))
  /\ [][/\ call.phase = "idle" => Silent(call') = Silent(CallAIStart(settings))
        /\ \A o \in ProviderOutcomes :
             (call.phase = "request" /\ call' = AttemptSettles(call, settings, o)) =>
               Silent(call') = Silent(AttemptSettles(Silent(call), settings, o))
        /\ call.phase = "sleep" =>
             Silent(call') = Silent(SleepResolves(Silent(call), settings))]_vars

C28_Witness ==
  /\ call.phase = "request" /\ call.attempt = 3
  /\ SelectSeq(call.events, NotRequest) =
       <<Event("progress", 1), Event("call", 1),
         Event("progressWait", 1), Event("wait", RETRY_DELAY),
         Event("progress", 2), Event("call", 2),
         Event("progressWait", 2), Event("wait", 2 * RETRY_DELAY),
         Event("progress", 3), Event("call", 3)>>

\* C29: the back button of step 2 takes step to 1 and leaves topics,
\* selectedTopic and editedOutline as they were; with topics on hand it
\* starts no call.
C29_BackFromOutline ==
  [][(Step2Shown(World) /\ Commit(back2Click(World))) =>
       /\ modal'.step = 1
       /\ modal'.topics = modal.topics
       /\ modal'.selectedTopic = modal.selectedTopic
       /\ modal'.editedOutline = modal.editedOutline
       /\ modal.topics # <<>> => calls' = calls
       /\ notes' = notes]_vars

C29_Witness ==
  /\ StepShown(World, 1)
  /\ modal.topics # <<>>
  /\ ~modal.selectedTopic.isNull
  /\ edits = 1
  /\ modal.editedOutline # modal.selectedTopic.topic.outline
  /\ calls = <<>>

C31_LocalMutations ==
  [][/\ (\/ \E i \in DOMAIN modal.editedOutline, value \in EntryInputs :
              Step2Shown(World) /\ Commit(outlineInput(World, i, value))
         \/ \E i \in DOMAIN modal.editedOutline :
              Step2Shown(World) /\ Commit(deleteClick(World, i))
         \/ Step2Shown(World) /\ Commit(addClick(World))
         \/ Step2Shown(World) /\ Commit(back2Click(World))
         \/ Step2Shown(World) /\ Commit(next2Click(World))
         \/ \E persona \in PersonaPicks :
              Step3Shown(World) /\ Commit(personaClick(World, persona))
         \/ \E length \in LengthPicks :
              Step3Shown(World) /\ Commit(lengthClick(World, length))
         \/ \E value \in InstructionInputs :
              Step3Shown(World) /\ Commit(instructionsInput(World, value))
         \/ Step3Shown(World) /\ Commit(back3Click(World))) =>
          /\ calls' = calls
          /\ ~modal'.isLoading
          /\ modal'.loadingStatus = modal.loadingStatus
          /\ notes' = notes
     /\ \A persona \in PersonaPicks :
          (Step3Shown(World) /\ Commit(personaClick(World, persona))) =>
            modal' = [modal EXCEPT !.selectedPersona = persona]
     /\ \A length \in LengthPicks :
          (Step3Shown(World) /\ Commit(lengthClick(World, length))) =>
            modal' = [modal EXCEPT !.selectedLength = length]
     /\ \A value \in InstructionInputs :
          (Step3Shown(World) /\ Commit(instructionsInput(World, value))) =>
            modal' = [modal EXCEPT !.customInstructions = value]]_vars

C31_Witness ==
  /\ Step3Shown(World)
  /\ modal.selectedPersona = "blog"
  /\ modal.selectedLength = "medium" /\ modal.customInstructions = ""
  /\ edits = 1
  /\ calls = <<>> /\ modal.lastError = NoError

\* C32: once the wizard has been closed (also while a provider call is under
\* way) no field of it changes any more, the number of its calls does not
\* grow and no note is created.
C32_ClosedIsFinal ==
  [][modal.opened = "closed" =>
       /\ modal' = modal
       /\ Len(calls') <= Len(calls)
       /\ notes' = notes]_vars

\* C33: when a composition call returns its text but createArticleNote gives
\* no file, the wizard is in step 3 with lastError the note-creation error
\* and isLoading false, it is neither closed nor reopened, no note is created
\* and no call is started.
C33_NoteCreationFailure ==
  [][\A slot \in DOMAIN calls : \A c \in CallSteps(slot) :
       (/\ calls[slot].kind = "article"
        /\ c.phase = "returned"
        /\ Commit(CallMoves(World, slot, c, TopicsThrown(TopicParseError), FALSE))) =>
         /\ modal'.step = 3
         /\ modal'.lastError = NoteError
         /\ ~modal'.isLoading
         /\ modal'.opened = modal.opened
         /\ notes' = notes
         /\ Len(calls') = Len(calls) - 1]_vars

C33_Witness ==
  /\ Step3Shown(World)
  /\ modal.lastError = NoteError
  /\ calls = <<>> /\ notes = 0
  /\ ~modal.selectedTopic.isNull

\* C34: while the wizard is open, isLoading is true exactly when a call the
\* wizard started is still under way.
C34_LoadingIffCallUnderWay ==
  modal.opened = "open" => (modal.isLoading <=> calls # <<>>)

LateOutcomes == {ResponseOutcome(200, "text", "t2"), ResponseOutcome(500, "missing", "")}

\* (a variant in which a settling request is heard by whatever attempt is
\* waiting)
SettleRace_AnyAttempt(c, k, st, r) ==
  IF AwaitsNetwork(c, st) THEN AttemptSettles(c, st, r) ELSE c

\* Promise.race([promise, timeoutPromise]) of attempt k settles with r: the
\* await of attempt k goes on if it is still waiting; a race that has already
\* settled stays as it is, and no other attempt awaits it
SettleRace(c, k, st, r) ==
  IF c.attempt = k /\ AwaitsNetwork(c, st) THEN AttemptSettles(c, st, r) ELSE c

\* the request of an attempt that has timed out settles
RequestSettlesLate ==
  /\ \E k \in DOMAIN outcomes, o \in LateOutcomes :
       /\ outcomes[k].type = "timeout"
       /\ "arrived" \notin DOMAIN outcomes[k]
       /\ call' = SettleRace(call, k, settings, o)
       /\ outcomes' = [outcomes EXCEPT ![k] = @ @@ [arrived |-> o]]
  /\ UNCHANGED <<settings, task, parseVars, wizardVars, sessionVars, materialVars>>

LateNext == Invoke \/ RaceSettles \/ BackoffElapses \/ RequestSettlesLate

SpecLate == DeadlineInit /\ [][LateNext]_vars

\* C36: when the request of an attempt that has timed out settles, with a
\* response or with a failure, the invocation of callAI is as before (its
\* attempt, phase, errors, calls made and result) and so is the wizard.
C36_LateResponseIgnored ==
  [][\A k \in DOMAIN outcomes, o \in LateOutcomes :
       (/\ outcomes[k].type = "timeout"
        /\ "arrived" \notin DOMAIN outcomes[k]
        /\ outcomes' = [outcomes EXCEPT ![k] = @ @@ [arrived |-> o]]) =>
         /\ call' = call
         /\ NumCalls(call') = NumCalls(call)
         /\ UNCHANGED wizardVars]_vars

C36_Witness ==
  /\ Len(outcomes) = 1
  /\ "arrived" \in DOMAIN outcomes[1]
  /\ outcomes[1].arrived.type = "response" /\ outcomes[1].arrived.status = 200
  /\ call.attempt = 2 /\ AwaitsNetwork(call, settings)

\* ===== SpecReselect: the outline editor, left and entered again =====
\* SpecOutline with the ways back to the topic list and into the editor
\* again: the topic option and the next button of step 1, the back button of
\* step 3.
ReselectNext == OutlineNext \/ SelectTopic \/ Next1 \/ Back3

SpecReselect == OutlineInit /\ [][ReselectNext]_vars

\* C37: a click on a suggested topic selects it and makes editedOutline
\* equal to that topic's outline as it is then; an edit, delete or insert in
\* step 2 changes neither the selected topic (its outline included) nor
\* topics.
C37_OutlineCopy ==
  [][/\ \A i \in DOMAIN modal.topics :
          (TopicOptionShown(World, i) /\ Commit(topicClick(World, i))) =>
            /\ modal'.editedOutline = modal.topics[i].outline
            /\ modal'.selectedTopic = Selection(i, modal.topics[i])
            /\ modal'.topics = modal.topics
     /\ (\/ \E i \in DOMAIN modal.editedOutline, value \in EntryInputs :
              Step2Shown(World) /\ Commit(outlineInput(World, i, value))
         \/ \E i \in DOMAIN modal.editedOutline :
              Step2Shown(World) /\ Commit(deleteClick(World, i))
         \/ Step2Shown(World) /\ Commit(addClick(World))) =>
          /\ modal'.selectedTopic = modal.selectedTopic
          /\ modal'.topics = modal.topics]_vars

C37_Witness ==
  /\ Step2Shown(World)
  /\ edits = 1
  /\ modal.selectedTopic.index = 1
  /\ modal.topics[1].outline = <<"p", "q">>
  /\ modal.selectedTopic.topic.outline = <<"p", "q">>
  /\ modal.editedOutline = <<"p", "e">>

====
